---- MODULE Spec2Model ----
(***************************************************************************)
(* Model of geom_analysis.py and geom_analysis_dict.py: two scripts that   *)
(* read an xyz geometry file, compute the distance of every pair of atoms  *)
(* through a joblib-memoized calculate_distance, and print the pairs that  *)
(* pass bond_check.                                                        *)
(*                                                                         *)
(* Numbers.  A coordinate is an integer number of hundredths (0.96 is 96). *)
(* A length (the value of numpy.sqrt, and the thresholds it is compared    *)
(* with) is represented exactly by its signed square in units of 1e-4:     *)
(* the length sqrt(n)/100 is the integer n, and the literal 1.5 is 22500.  *)
(* The map x |-> x*|x| is strictly increasing, so < and <= on the          *)
(* representation are < and <= on the lengths.  Arithmetic is exact;       *)
(* binary floating point rounding is not modelled.                         *)
(*                                                                         *)
(* Text.  The tokens of the file are strings; astype(float) parses them.   *)
(* A printed report line '{a} to {b} : {d:.3f}' is the triple              *)
(* <<a, b, t>> with t the printed number in thousandths ('0.960' is 960).  *)
(* The loop headings and the 'running calculate_distance' trace that the   *)
(* scripts also print are not report lines; the trace is recorded in runs. *)
(*                                                                         *)
(* Libraries.  numpy.genfromtxt, itertools.combinations and joblib's       *)
(* memory.cache are modelled by their documented behaviour, for a numpy    *)
(* that still provides numpy.float.  An exception ends the run: the        *)
(* scripts catch none.                                                     *)
(***************************************************************************)
EXTENDS Integers, Sequences, FiniteSets, TLC

VARIABLES
    file,              \* the xyz file named on the command line
    pc,                \* geom_analysis.main: position
    symbols, coord,    \* geom_analysis.main: the arrays returned by open_xyz
    num1, num2,        \* geom_analysis.main: loop variables (0-based)
    comb,              \* geom_analysis.main: state of itertools.combinations
    lines,             \* geom_analysis.main: report lines printed, per loop
    evals,             \* geom_analysis.main: index pairs evaluated, per loop
    cache,             \* joblib store of geom_analysis.calculate_distance
    runs,              \* the arguments of each execution of calculate_distance's body
    dpc,               \* geom_analysis_dict.main: position
    symbol_positions,  \* geom_analysis_dict.main: the dict returned by open_xyz
    dcomb,             \* geom_analysis_dict.main: state of itertools.combinations
    dlines,            \* geom_analysis_dict.main: report lines printed
    devals,            \* geom_analysis_dict.main: symbol pairs evaluated
    dcache,            \* joblib store of geom_analysis_dict.calculate_distance
    lastArgs,          \* cache protocol: arguments of the latest call
    ret,               \* cache protocol: value the latest call returned
    ran,               \* cache protocol: whether the latest call ran the body
    nCalls,            \* cache protocol: number of calls made
    results,           \* cache protocol: values returned so far, per arguments
    bargs,             \* bond_check: the arguments of the call
    bond,              \* bond_check: returned value
    bpc                \* bond_check: position

vars == <<file, pc, symbols, coord, num1, num2, comb, lines, evals, cache, runs,
          dpc, symbol_positions, dcomb, dlines, devals, dcache,
          lastArgs, ret, ran, nCalls, results,
          bargs, bond, bpc>>

mainVars == <<file, pc, symbols, coord, num1, num2, comb, lines, evals, cache, runs,
              dpc, symbol_positions, dcomb, dlines, devals, dcache>>
cacheVars == <<lastArgs, ret, ran, nCalls, results>>
bondVars == <<bargs, bond, bpc>>

----------------------------------------------------------------------------
(* Bounds *)

MaxAtoms == 4      \* data rows in the file
MaxCalls == 4      \* calls made in the cache protocol
MaxGrid == 8       \* bond_check inputs: lengths 0, 0.25, ..., MaxGrid * 0.25

----------------------------------------------------------------------------
(* Numbers *)

Abs(x) == IF x < 0 THEN -x ELSE x

\* the representation of the length x hundredths
FromHundredths(x) == x * Abs(x)

\* largest r in lo .. hi-1 with r*r <= n
RECURSIVE SqrtSearch(_, _, _)
SqrtSearch(n, lo, hi) ==
    IF hi - lo <= 1 THEN lo
    ELSE LET mid == (lo + hi) \div 2
         IN IF mid * mid <= n THEN SqrtSearch(n, mid, hi) ELSE SqrtSearch(n, lo, mid)

Isqrt(n) == SqrtSearch(n, 0, (IF n < 46340 THEN n ELSE 46340) + 1)

\* '{d:.3f}' of a length d: sqrt(d)/100 rounded to the nearest thousandth
Format3f(d) ==
    LET m == 100 * d
        r == Isqrt(m)
    IN IF m - r * r > r THEN r + 1 ELSE r

\* astype(numpy.float) of one token: the literals the model's files use
FloatTable ==
    ("0" :> 0) @@ ("0.96" :> 96) @@ ("-0.96" :> -96) @@ ("1.5" :> 150)

IsFloat(tok) == tok \in DOMAIN FloatTable

AsFloat(toks) == [i \in 1..Len(toks) |-> FloatTable[toks[i]]]

----------------------------------------------------------------------------
(* calculate_distance and bond_check *)

RECURSIVE SumSquares(_, _)
SumSquares(v, i) == IF i > Len(v) THEN 0 ELSE v[i] * v[i] + SumSquares(v, i + 1)

CalculateDistanceBodyOneSided(atom1_coord, atom2_coord) ==
    SumSquares(atom1_coord, 1)

\* body of calculate_distance: sqrt(sum(square(atom1_coord - atom2_coord)))
CalculateDistanceBody(atom1_coord, atom2_coord) ==
    LET distances == [i \in 1..Len(atom1_coord) |-> atom1_coord[i] - atom2_coord[i]]
    IN SumSquares(distances, 1)

DefaultMinimumLength == FromHundredths(0)
DefaultMaximumLength == FromHundredths(150)

BondCheckClosedLeft(atom_distance, minimum_length, maximum_length) ==
    minimum_length <= atom_distance /\ atom_distance <= maximum_length

\* minimum_length < atom_distance <= maximum_length
BondCheck(atom_distance, minimum_length, maximum_length) ==
    minimum_length < atom_distance /\ atom_distance <= maximum_length

----------------------------------------------------------------------------
(* The joblib store: a set of entries, one per remembered call *)

CacheKeyUnordered(a, b) == IF a = b THEN <<a, b>> ELSE CHOOSE k \in {<<a, b>>, <<b, a>>} : TRUE

\* joblib keys an entry on the hash of the argument values, in argument order
CacheKey(a, b) == <<a, b>>

CacheHitNever(store, a, b) == FALSE

CacheHit(store, a, b) == \E e \in store : e.key = CacheKey(a, b)

CacheValue(store, a, b) == (CHOOSE e \in store : e.key = CacheKey(a, b)).value

\* one call of the memoized calculate_distance against store
CalculateDistance(store, a, b) ==
    IF CacheHit(store, a, b)
    THEN [store |-> store, value |-> CacheValue(store, a, b), ran |-> FALSE]
    ELSE LET d == CalculateDistanceBody(a, b)
         IN [store |-> store \cup {[key |-> CacheKey(a, b), value |-> d]},
             value |-> d, ran |-> TRUE]

----------------------------------------------------------------------------
(* The geometry file and the loaders *)

\* a path that names no readable file
Missing == [exists |-> FALSE, rows |-> <<>>]

\* data rows the model's files are made of (the two header lines are skipped)
Rows ==
    { <<"O", "0", "0", "0">>,
      <<"H", "0", "0", "0.96">>,
      <<"H", "0", "0", "-0.96">>,
      <<"C", "0", "0", "1.5">>,
      <<"N", "0", "0.96", "0">>,
      <<"X", "x", "0", "0">>,
      <<"O", "0">>,
      <<"H", "0.96">> }

RECURSIVE SeqsUpTo(_, _)
SeqsUpTo(S, n) ==
    IF n = 0 THEN {<<>>}
    ELSE LET shorter == SeqsUpTo(S, n - 1)
         IN shorter \cup {Append(s, x) : s \in {t \in shorter : Len(t) = n - 1}, x \in S}

Files == {Missing} \cup {[exists |-> TRUE, rows |-> r] : r \in SeqsUpTo(Rows, MaxAtoms)}

Water ==
    [exists |-> TRUE,
     rows |-> << <<"O", "0", "0", "0">>, <<"H", "0", "0", "0.96">>, <<"H", "0", "0", "-0.96">> >>]

\* numpy.genfromtxt(fname, skip_header=2, dtype='unicode'): raises when the file
\* cannot be opened or when a row has another number of columns than the first;
\* the table is squeezed, so one row or one column gives a 1-d array (one
\* token, a 0-d array) and no row gives an empty 1-d array
GenFromTxt(fname) ==
    LET f == fname.rows
    IN
    IF ~fname.exists THEN [err |-> TRUE, ndim |-> 0, data |-> <<>>]
    ELSE IF \E i \in 1..Len(f) : Len(f[i]) # Len(f[1])
         THEN [err |-> TRUE, ndim |-> 0, data |-> <<>>]
    ELSE IF Len(f) = 0 THEN [err |-> FALSE, ndim |-> 1, data |-> <<>>]
    ELSE IF Len(f) = 1 /\ Len(f[1]) = 1 THEN [err |-> FALSE, ndim |-> 0, data |-> f[1]]
    ELSE IF Len(f) = 1 THEN [err |-> FALSE, ndim |-> 1, data |-> f[1]]
    ELSE IF Len(f[1]) = 1
         THEN [err |-> FALSE, ndim |-> 1, data |-> [i \in 1..Len(f) |-> f[i][1]]]
    ELSE [err |-> FALSE, ndim |-> 2, data |-> f]

Failed == [err |-> TRUE]

\* geom_analysis.open_xyz: xyz_file[:, 0] and xyz_file[:, 1:] need a 2-d array,
\* astype raises on a token that is not a number
OpenXyz(filename) ==
    LET xyz_file == GenFromTxt(filename)
    IN IF xyz_file.err \/ xyz_file.ndim < 2 THEN Failed
       ELSE LET syms == [i \in 1..Len(xyz_file.data) |-> xyz_file.data[i][1]]
                strs == [i \in 1..Len(xyz_file.data) |-> Tail(xyz_file.data[i])]
            IN IF \E i \in 1..Len(strs) : \E j \in 1..Len(strs[i]) : ~IsFloat(strs[i][j])
               THEN Failed
               ELSE [err |-> FALSE, symbols |-> syms,
                     coord |-> [i \in 1..Len(strs) |-> AsFloat(strs[i])]]

\* a dict: the keys in insertion order and the value of each key
EmptyDict == [keys |-> <<>>, val |-> <<>>]

DictSetFirstWins(d, k, v) ==
    IF \E i \in 1..Len(d.keys) : d.keys[i] = k
    THEN d
    ELSE [keys |-> Append(d.keys, k), val |-> Append(d.val, v)]

\* file_dict[k] = v: a new key goes last, a present key keeps its place
DictSet(d, k, v) ==
    IF \E i \in 1..Len(d.keys) : d.keys[i] = k
    THEN [keys |-> d.keys,
          val |-> [i \in 1..Len(d.keys) |-> IF d.keys[i] = k THEN v ELSE d.val[i]]]
    ELSE [keys |-> Append(d.keys, k), val |-> Append(d.val, v)]

\* the for loop of geom_analysis_dict.open_xyz over the rows from row i on
RECURSIVE FillDict(_, _, _)
FillDict(rows, i, file_dict) ==
    IF i > Len(rows) THEN [err |-> FALSE, dict |-> file_dict]
    ELSE LET l == rows[i]
         IN IF \E j \in 2..Len(l) : ~IsFloat(l[j]) THEN Failed
            ELSE FillDict(rows, i + 1, DictSet(file_dict, l[1], AsFloat(Tail(l))))

\* geom_analysis_dict.open_xyz: iterating a 0-d array raises; the elements of
\* a 1-d array are strings, whose slice l[1:] has no astype
DictOpenXyz(filename) ==
    LET xyz_file == GenFromTxt(filename)
    IN IF xyz_file.err \/ xyz_file.ndim = 0 THEN Failed
       ELSE IF xyz_file.ndim = 1
            THEN IF Len(xyz_file.data) = 0 THEN [err |-> FALSE, dict |-> EmptyDict] ELSE Failed
       ELSE FillDict(xyz_file.data, 1, EmptyDict)

----------------------------------------------------------------------------
(* itertools.combinations(iterable, 2) over n items, as 0-based index pairs *)

Exhausted == <<>>

CombFirst(n) == IF n < 2 THEN Exhausted ELSE <<0, 1>>

CombNextWithReplacement(indices, n) ==
    IF indices[2] # n - 1 THEN <<indices[1], indices[2] + 1>>
    ELSE IF indices[1] # n - 1 THEN <<indices[1] + 1, indices[1] + 1>>
    ELSE Exhausted

\* the rightmost index not yet at its maximum is advanced, those after it reset
CombNext(indices, n) ==
    IF indices[2] # n - 1 THEN <<indices[1], indices[2] + 1>>
    ELSE IF indices[1] # n - 2 THEN <<indices[1] + 1, indices[1] + 2>>
    ELSE Exhausted

----------------------------------------------------------------------------
(* geom_analysis.main *)

Loops == 1..3

NestedGuardNotEqual(x, y) == x # y
NestedGuard(x, y) == x < y

GeneratorGuardLeq(x, y) == x <= y
GeneratorGuard(x, y) == x < y

\* the line bond_check lets through, if any
ReportIfSwapped(d, sym1, sym2) ==
    IF BondCheck(d, DefaultMinimumLength, DefaultMaximumLength)
    THEN << <<sym2, sym1, Format3f(d)>> >>
    ELSE <<>>

ReportIf(d, sym1, sym2) ==
    IF BondCheck(d, DefaultMinimumLength, DefaultMaximumLength)
    THEN << <<sym1, sym2, Format3f(d)>> >>
    ELSE <<>>

\* the body shared by the three loops: distance, bond_check, print
Evaluate(loop, i, j) ==
    LET call == CalculateDistance(cache, coord[i + 1], coord[j + 1])
        key == <<coord[i + 1], coord[j + 1]>>
    IN /\ cache' = call.store
       /\ runs' = IF call.ran THEN Append(runs, key) ELSE runs
       /\ evals' = [evals EXCEPT ![loop] = Append(@, <<i, j>>)]
       /\ lines' = [lines EXCEPT ![loop] = @ \o ReportIf(call.value, symbols[i + 1], symbols[j + 1])]

dictVars == <<dpc, symbol_positions, dcomb, dlines, devals, dcache>>

\* parse_args, open_xyz, num_atoms = len(symbols); an exception ends the run
Load ==
    /\ pc = "start"
    /\ LET r == OpenXyz(file)
       IN IF r.err
          THEN /\ pc' = "error"
               /\ UNCHANGED <<symbols, coord>>
          ELSE /\ pc' = "nested"
               /\ symbols' = r.symbols
               /\ coord' = r.coord
    /\ num1' = 0
    /\ num2' = 0
    /\ UNCHANGED <<file, comb, lines, evals, cache, runs>>
    /\ UNCHANGED <<dictVars, cacheVars, bondVars>>

\* one pass through the body of the inner for of the nested loops
NestedStep ==
    /\ pc = "nested"
    /\ num1 < Len(symbols)
    /\ IF NestedGuard(num1, num2)
       THEN Evaluate(1, num1, num2)
       ELSE UNCHANGED <<lines, evals, cache, runs>>
    /\ IF num2 + 1 < Len(symbols)
       THEN num2' = num2 + 1 /\ num1' = num1
       ELSE num2' = 0 /\ num1' = num1 + 1
    /\ UNCHANGED <<file, pc, symbols, coord, comb>>
    /\ UNCHANGED <<dictVars, cacheVars, bondVars>>

\* the nested loops are exhausted; the generator expression is created
NestedDone ==
    /\ pc = "nested"
    /\ num1 >= Len(symbols)
    /\ pc' = "generator"
    /\ num1' = 0
    /\ num2' = 0
    /\ UNCHANGED <<file, symbols, coord, comb, lines, evals, cache, runs>>
    /\ UNCHANGED <<dictVars, cacheVars, bondVars>>

\* one pair drawn from ((x, y) for x in range(n) for y in range(n))
GeneratorStep ==
    /\ pc = "generator"
    /\ num1 < Len(symbols)
    /\ IF GeneratorGuard(num1, num2)
       THEN Evaluate(2, num1, num2)
       ELSE UNCHANGED <<lines, evals, cache, runs>>
    /\ IF num2 + 1 < Len(symbols)
       THEN num2' = num2 + 1 /\ num1' = num1
       ELSE num2' = 0 /\ num1' = num1 + 1
    /\ UNCHANGED <<file, pc, symbols, coord, comb>>
    /\ UNCHANGED <<dictVars, cacheVars, bondVars>>

\* the generator is exhausted; itertools.combinations(enumerate(coord), 2)
GeneratorDone ==
    /\ pc = "generator"
    /\ num1 >= Len(symbols)
    /\ pc' = "combinations"
    /\ comb' = CombFirst(Len(coord))
    /\ UNCHANGED <<file, symbols, coord, num1, num2, lines, evals, cache, runs>>
    /\ UNCHANGED <<dictVars, cacheVars, bondVars>>

\* one pair (p1, p2) drawn from the combinations
CombinationsStep ==
    /\ pc = "combinations"
    /\ comb # Exhausted
    /\ Evaluate(3, comb[1], comb[2])
    /\ comb' = CombNext(comb, Len(coord))
    /\ UNCHANGED <<file, pc, symbols, coord, num1, num2>>
    /\ UNCHANGED <<dictVars, cacheVars, bondVars>>

\* the combinations are exhausted; main returns
CombinationsDone ==
    /\ pc = "combinations"
    /\ comb = Exhausted
    /\ pc' = "done"
    /\ UNCHANGED <<file, symbols, coord, num1, num2, comb, lines, evals, cache, runs>>
    /\ UNCHANGED <<dictVars, cacheVars, bondVars>>

----------------------------------------------------------------------------
(* geom_analysis_dict.main, run on the same file once geom_analysis has ended *)

seqVars == <<pc, symbols, coord, num1, num2, comb, lines, evals, cache, runs>>

\* parse_args, open_xyz, itertools.combinations(symbol_positions, 2)
DictLoad ==
    /\ dpc = "start"
    /\ pc \in {"done", "error"}
    /\ LET r == DictOpenXyz(file)
       IN IF r.err
          THEN /\ dpc' = "error"
               /\ UNCHANGED <<symbol_positions, dcomb>>
          ELSE /\ dpc' = "combinations"
               /\ symbol_positions' = r.dict
               /\ dcomb' = CombFirst(Len(r.dict.keys))
    /\ UNCHANGED <<file, dlines, devals, dcache>>
    /\ UNCHANGED <<seqVars, cacheVars, bondVars>>

\* one pair (sym1, sym2) of keys drawn from the combinations
DictStep ==
    /\ dpc = "combinations"
    /\ dcomb # Exhausted
    /\ LET sym1 == symbol_positions.keys[dcomb[1] + 1]
           sym2 == symbol_positions.keys[dcomb[2] + 1]
           call == CalculateDistance(dcache, symbol_positions.val[dcomb[1] + 1],
                                     symbol_positions.val[dcomb[2] + 1])
       IN /\ dcache' = call.store
          /\ devals' = Append(devals, <<sym1, sym2>>)
          /\ dlines' = dlines \o ReportIf(call.value, sym1, sym2)
    /\ dcomb' = CombNext(dcomb, Len(symbol_positions.keys))
    /\ UNCHANGED <<file, dpc, symbol_positions>>
    /\ UNCHANGED <<seqVars, cacheVars, bondVars>>

\* the combinations are exhausted; main returns
DictDone ==
    /\ dpc = "combinations"
    /\ dcomb = Exhausted
    /\ dpc' = "done"
    /\ UNCHANGED <<file, symbol_positions, dcomb, dlines, devals, dcache>>
    /\ UNCHANGED <<seqVars, cacheVars, bondVars>>

Idle ==
    /\ symbols = <<>> /\ coord = <<>> /\ num1 = 0 /\ num2 = 0 /\ comb = Exhausted
    /\ lines = [l \in Loops |-> <<>>] /\ evals = [l \in Loops |-> <<>>]
    /\ cache = {} /\ runs = <<>>
    /\ symbol_positions = EmptyDict /\ dcomb = Exhausted
    /\ dlines = <<>> /\ devals = <<>> /\ dcache = {}
    /\ lastArgs = <<>> /\ ret = 0 /\ ran = FALSE /\ nCalls = 0 /\ results = {}
    /\ bargs = [atom_distance |-> 0, minimum_length |-> 0, maximum_length |-> 0]
    /\ bond = FALSE

\* both scripts are started on one file, with empty joblib stores
Init ==
    /\ file \in Files
    /\ pc = "start" /\ dpc = "start" /\ bpc = "idle"
    /\ Idle

Next ==
    \/ Load
    \/ NestedStep
    \/ NestedDone
    \/ GeneratorStep
    \/ GeneratorDone
    \/ CombinationsStep
    \/ CombinationsDone
    \/ DictLoad
    \/ DictStep
    \/ DictDone

Spec == Init /\ [][Next]_vars

----------------------------------------------------------------------------
(* The memoized calculate_distance under arbitrary calls against one store *)

Pool == { <<0, 0, 0>>, <<0, 0, 96>>, <<0, 0, -96>> }

\* calculate_distance(a, b)
Call(a, b) ==
    /\ nCalls < MaxCalls
    /\ LET call == CalculateDistance(cache, a, b)
       IN /\ cache' = call.store
          /\ runs' = IF call.ran THEN Append(runs, <<a, b>>) ELSE runs
          /\ ret' = call.value
          /\ ran' = call.ran
          /\ results' = results \cup {[args |-> <<a, b>>, value |-> call.value]}
    /\ lastArgs' = <<a, b>>
    /\ nCalls' = nCalls + 1
    /\ UNCHANGED <<file, pc, symbols, coord, num1, num2, comb, lines, evals>>
    /\ UNCHANGED <<dictVars, bondVars>>

CacheInit ==
    /\ file = Missing
    /\ pc = "idle" /\ dpc = "idle" /\ bpc = "idle"
    /\ Idle

CacheNext == \E a \in Pool, b \in Pool : Call(a, b)

CacheSpec == CacheInit /\ [][CacheNext]_vars

----------------------------------------------------------------------------
(* bond_check on its own *)

DistanceInputs ==
    {FromHundredths(25 * k) : k \in 0..MaxGrid} \cup {1, DefaultMaximumLength - 1, DefaultMaximumLength + 1}

MinimumInputs == {FromHundredths(-50), DefaultMinimumLength, FromHundredths(50), FromHundredths(150)}

MaximumInputs == {FromHundredths(50), DefaultMaximumLength, FromHundredths(175)}

\* bond_check(atom_distance, minimum_length, maximum_length)
BondCall ==
    /\ bpc = "call"
    /\ bond' = BondCheck(bargs.atom_distance, bargs.minimum_length, bargs.maximum_length)
    /\ bpc' = "returned"
    /\ UNCHANGED <<bargs, mainVars, cacheVars>>

BondInit ==
    /\ file = Missing
    /\ pc = "idle" /\ dpc = "idle" /\ bpc = "call"
    /\ symbols = <<>> /\ coord = <<>> /\ num1 = 0 /\ num2 = 0 /\ comb = Exhausted
    /\ lines = [l \in Loops |-> <<>>] /\ evals = [l \in Loops |-> <<>>]
    /\ cache = {} /\ runs = <<>>
    /\ symbol_positions = EmptyDict /\ dcomb = Exhausted
    /\ dlines = <<>> /\ devals = <<>> /\ dcache = {}
    /\ lastArgs = <<>> /\ ret = 0 /\ ran = FALSE /\ nCalls = 0 /\ results = {}
    /\ bargs \in [atom_distance : DistanceInputs, minimum_length : MinimumInputs,
                  maximum_length : MaximumInputs]
    /\ bond = FALSE

BondNext == BondCall

BondSpec == BondInit /\ [][BondNext]_vars

----------------------------------------------------------------------------
(* Vocabulary of the properties *)

NumRows == Len(file.rows)

\* a data row is well formed when it is a symbol and three real numbers
WellFormedRow(row) == Len(row) = 4 /\ \A j \in 2..4 : IsFloat(row[j])

Malformed == file.exists /\ \E i \in 1..NumRows : ~WellFormedRow(file.rows[i])

FileSymbols == {file.rows[i][1] : i \in 1..NumRows}

SymbolsDistinct == Cardinality(FileSymbols) = NumRows

Range(s) == {s[i] : i \in 1..Len(s)}

LoopFinished(l) ==
    CASE l = 1 -> pc \in {"generator", "combinations", "done"}
      [] l = 2 -> pc \in {"combinations", "done"}
      [] l = 3 -> pc = "done"

AllLines == lines[1] \o lines[2] \o lines[3]

\* the pairs i < j below n, in lexicographic order
RECURSIVE PairsFrom(_, _, _)
PairsFrom(i, j, n) ==
    IF i >= n - 1 THEN <<>>
    ELSE IF j >= n THEN PairsFrom(i + 1, i + 2, n)
    ELSE << <<i, j>> >> \o PairsFrom(i, j + 1, n)

RECURSIVE BondedLines(_, _, _, _)
BondedLines(pairs, k, names, pos) ==
    IF k > Len(pairs) THEN <<>>
    ELSE LET i == pairs[k][1] + 1
             j == pairs[k][2] + 1
             d == CalculateDistanceBody(pos[i], pos[j])
         IN (IF 0 < d /\ d <= 22500 THEN << <<names[i], names[j], Format3f(d)>> >> ELSE <<>>)
            \o BondedLines(pairs, k + 1, names, pos)

\* one line per bonded pair of the atoms names/pos, in lexicographic pair order
ExpectedLines(names, pos) == BondedLines(PairsFrom(0, 1, Len(names)), 1, names, pos)

WaterLine == <<"O", "H", 960>>

Executions(k) == Cardinality({i \in 1..Len(runs) : runs[i] = k})

Reverse(k) == <<k[2], k[1]>>

----------------------------------------------------------------------------
(* Properties *)

\* C1: bond_check returns true exactly when minimum_length < atom_distance <=
\* maximum_length; with the defaults 0 and 1.5 it is false at 0, true at 1.5
\* and false for every distance above 1.5.
C1_BondCheckInterval ==
    bpc = "returned" =>
        /\ bond <=> (bargs.minimum_length < bargs.atom_distance
                      /\ bargs.atom_distance <= bargs.maximum_length)
        /\ (bargs.minimum_length = 0 /\ bargs.maximum_length = 22500) =>
               /\ bargs.atom_distance = 0 => ~bond
               /\ bargs.atom_distance = 22500 => bond
               /\ bargs.atom_distance > 22500 => ~bond

C1_Witness ==
    /\ bpc = "returned" /\ bond
    /\ bargs = [atom_distance |-> 22500, minimum_length |-> 0, maximum_length |-> 22500]

\* C2: each loop of geom_analysis.main evaluates no pair (i, i) and no
\* unordered pair twice, and once finished has evaluated every unordered pair
\* of distinct atom indices, N*(N-1)/2 pairs in all.
C2_PairsOnce ==
    \A l \in Loops :
        /\ \A p \in 1..Len(evals[l]) :
              /\ evals[l][p][1] # evals[l][p][2]
              /\ \A q \in 1..Len(evals[l]) :
                    q # p => /\ evals[l][q] # evals[l][p]
                             /\ evals[l][q] # Reverse(evals[l][p])
        /\ LoopFinished(l) =>
              /\ 2 * Len(evals[l]) = NumRows * (NumRows - 1)
              /\ \A i \in 0..(NumRows - 1) : \A j \in 0..(NumRows - 1) :
                    i < j => <<i, j>> \in Range(evals[l]) \/ <<j, i>> \in Range(evals[l])

C2_Witness == pc = "done" /\ NumRows >= 3 /\ Len(evals[1]) >= 3

\* C3 as stated: a whole run prints one line per bonded pair of atoms of the
\* file, in pair order, under either script.
C3_OneLinePerBondedPair ==
    /\ pc = "done" => AllLines = ExpectedLines(symbols, coord)
    /\ (pc = "done" /\ dpc = "done") => dlines = ExpectedLines(symbols, coord)

\* C3, amended: each loop of geom_analysis.main prints one line per bonded
\* pair of atom indices, in pair order, and geom_analysis_dict.main one line
\* per bonded pair of keys of its dict; for water each loop prints the two
\* lines 'O to H : 0.960' and geom_analysis_dict.main prints one.
C3_OneLinePerBondedPairPerLoop ==
    /\ \A l \in Loops :
          LoopFinished(l) =>
              /\ lines[l] = ExpectedLines(symbols, coord)
              /\ file = Water => lines[l] = <<WaterLine, WaterLine>>
    /\ dpc = "done" =>
          /\ dlines = ExpectedLines(symbol_positions.keys, symbol_positions.val)
          /\ file = Water => dlines = <<WaterLine>>

C3_Witness == file = Water /\ pc = "done" /\ dpc = "done" /\ Len(AllLines) = 6

\* C4: the body of calculate_distance has run at most once for each pair of
\* argument values, and all calls with the same arguments returned the same
\* value.
C4_BodyRunsOnce ==
    /\ \A a \in Pool, b \in Pool : Executions(<<a, b>>) <= 1
    /\ \A r1 \in results, r2 \in results : r1.args = r2.args => r1.value = r2.value
    /\ Len(runs) = Cardinality({r.args : r \in results})

C4_Witness == nCalls >= 2 /\ ~ran /\ Executions(lastArgs) = 1

\* C5 as stated: the store holds at most one entry per unordered pair of
\* coordinate values.
C5_OneEntryPerUnorderedPair ==
    \A e1 \in cache, e2 \in cache :
        {e1.key[1], e1.key[2]} = {e2.key[1], e2.key[2]} => e1 = e2

\* C5, amended: the store holds exactly one entry per ordered pair of argument
\* values that has been called, so calculate_distance(b, a) after
\* calculate_distance(a, b) adds a second entry; the two hold the same value.
C5_OneEntryPerOrderedPair ==
    /\ \A e1 \in cache, e2 \in cache : e1.key = e2.key => e1 = e2
    /\ {e.key : e \in cache} = {r.args : r \in results}
    /\ Cardinality(cache) = Len(runs)
    /\ \A e1 \in cache, e2 \in cache : e1.key = Reverse(e2.key) => e1.value = e2.value

C5_Witness ==
    \E e1 \in cache, e2 \in cache : e1 # e2 /\ e1.key = Reverse(e2.key)

\* C6: the three loops of geom_analysis.main evaluate the same set of index
\* pairs and print the same set of report lines.
C6_SameSetOfPairs ==
    pc = "done" =>
        /\ Range(evals[1]) = Range(evals[2]) /\ Range(evals[2]) = Range(evals[3])
        /\ Range(lines[1]) = Range(lines[2]) /\ Range(lines[2]) = Range(lines[3])

C6_Witness == pc = "done" /\ Len(evals[3]) >= 3 /\ Len(lines[3]) >= 2

\* C7: calculate_distance(a, b) and calculate_distance(b, a) return the same
\* value, whether computed or served from the store.
C7_Symmetric ==
    /\ \A a \in Pool, b \in Pool :
          CalculateDistance(cache, a, b).value = CalculateDistance(cache, b, a).value
    /\ \A r1 \in results, r2 \in results :
          r1.args = Reverse(r2.args) => r1.value = r2.value

C7_Witness ==
    /\ ~ran /\ lastArgs # <<>>
    /\ lastArgs[1] # lastArgs[2]
    /\ \E r \in results : r.args = Reverse(lastArgs)

\* C8: the dict returned by geom_analysis_dict.open_xyz has one entry per
\* distinct symbol of the file, holding the coordinates of the last row with
\* that symbol.
C8_LastWriteWins ==
    dpc \in {"combinations", "done"} =>
        LET d == symbol_positions
        IN /\ \A i \in 1..Len(d.keys), j \in 1..Len(d.keys) : d.keys[i] = d.keys[j] => i = j
           /\ Range(d.keys) = FileSymbols
           /\ Len(d.val) = Len(d.keys)
           /\ \A i \in 1..Len(d.keys) :
                 \E r \in 1..NumRows :
                    /\ file.rows[r][1] = d.keys[i]
                    /\ \A r2 \in (r + 1)..NumRows : file.rows[r2][1] # d.keys[i]
                    /\ d.val[i] = AsFloat(Tail(file.rows[r]))

C8_Witness ==
    /\ dpc = "done"
    /\ \E r \in 1..NumRows, r2 \in 1..NumRows :
          r < r2 /\ file.rows[r][1] = file.rows[r2][1] /\ file.rows[r] # file.rows[r2]

\* C9: when the file is missing or has a malformed data row, a run of either
\* script prints no report line and does not end normally; and no script
\* evaluates a distance before it has loaded the file.
C9_FailsBeforeAnyReport ==
    /\ (~file.exists \/ Malformed) =>
          /\ pc # "done" /\ dpc # "done"
          /\ AllLines = <<>> /\ dlines = <<>>
    /\ pc \in {"start", "error"} => \A l \in Loops : evals[l] = <<>> /\ lines[l] = <<>>
    /\ dpc \in {"start", "error"} => devals = <<>> /\ dlines = <<>>

\* C10: geom_analysis_dict.main evaluates K*(K-1)/2 pairs for K distinct
\* symbols; with all symbols distinct it prints the lines of the combinations
\* loop of geom_analysis.main, and with a repeated symbol it evaluates fewer
\* pairs than that loop.
C10_DictAgainstCombinations ==
    /\ dpc = "done" =>
          2 * Len(devals) = Cardinality(FileSymbols) * (Cardinality(FileSymbols) - 1)
    /\ (dpc = "done" /\ pc = "done" /\ SymbolsDistinct) => dlines = lines[3]
    /\ (dpc = "done" /\ pc = "done" /\ ~SymbolsDistinct) =>
          /\ Len(devals) < Len(evals[3])
          /\ Len(devals) < Len(evals[1]) /\ Len(devals) < Len(evals[2])

C10_Witness ==
    dpc = "done" /\ pc = "done" /\ SymbolsDistinct /\ NumRows >= 3 /\ Len(dlines) >= 2

====
